---- MODULE Spec2Model ----
(***************************************************************************)
(* Agent Dojo frontend: the OAuth connection flow of the Add Connection    *)
(* modal (ConnectionManager / AddConnectionModal in                        *)
(* frontend/src/components/composio/ToolDetailPanel.tsx).                  *)
(*                                                                         *)
(* Every invocation of initiateMutation.onSuccess creates one closure      *)
(* holding data, popup, pollInterval and checkPopupClosed.  Such a closure *)
(* is a "session" here, numbered in the order onSuccess runs.  The browser *)
(* event loop is single threaded, so every callback is one atomic action;  *)
(* an async callback is split at its await.                                *)
(*                                                                         *)
(* The second part models the recursive schema renderer SchemaDisplay /    *)
(* PropertyItem (frontend/src/components/composio/SchemaDisplay.tsx): the  *)
(* tree of mounted PropertyItem components and their isExpanded state.     *)
(* Spec is the modal, SchemaSpec the renderer; each leaves the variables   *)
(* of the other untouched.                                                 *)
(***************************************************************************)
EXTENDS Integers, Naturals, Sequences, FiniteSets, TLC

\* ---- bounds of the model ----
\* clicks on a toolkit button (initiate calls)
MaxInitiates == 2
\* times the Add Connection modal is mounted
MaxModals == 1
\* firings of the status-poll timers, all sessions together
MaxPolls == 2

\* ---- input sets ----
Slugs == {"gmail"}
Statuses == {"ACTIVE", "PENDING", "FAILED", "EXPIRED"}

Sessions == 1..MaxInitiates
Windows == 1..MaxInitiates
ConnIds == 1..MaxInitiates

\* ---- values standing for null ----
NoData == [connection_id |-> 0, auth_url |-> 0, toolkit_slug |-> ""]
NoPending == [connectionId |-> 0, appType |-> "", popup |-> 0]

VARIABLES
    showAddConnection,   \* ConnectionManager state: is the modal mounted
    modalId,             \* identity of the mounted (or last mounted) modal instance
    pendingConnection,   \* state of the mounted modal instance
    initiateMutation,    \* initiate calls in flight: set of [modal, slug]
    nextConn,            \* connections created by the server so far
    nSessions,           \* onSuccess invocations so far
    owner,               \* session -> modal instance whose onSuccess ran
    data,                \* session -> ConnectionInitiateResponse
    popup,               \* session -> window returned by window.open (0 = null)
    pollInterval,        \* session -> is the 2 s status-poll timer scheduled
    checkPopupClosed,    \* session -> is the 1 s popup-liveness timer scheduled
    checks,              \* session -> connection ids of status checks in flight
    polls,               \* firings of the poll timers so far
    winState,            \* window -> "none" | "open" | "closed"
    winUrl,              \* window -> url it shows
    opens,               \* session -> calls of window.open
    failAlerts,          \* session -> 'Connection failed' alerts shown
    initAlerts,          \* 'Failed to initiate connection' alerts shown
    notified,            \* session -> calls of the onSuccess prop
    refetches,           \* calls of refetchConnections
    logged,              \* session -> console.error calls of the poll callback
    phase,               \* session -> state of the session's state machine:
                         \* IDLE, AWAITING_AUTH, then the first terminal
                         \* transition taken (ACTIVE, FAILED, CANCELLED)
    last                 \* the callback that ran last: [op, sess, modal,
                         \* awaiting]; awaiting: was the session's poll timer
                         \* scheduled when the callback started

vars == <<showAddConnection, modalId, pendingConnection, initiateMutation,
          nextConn, nSessions, owner, data, popup, pollInterval,
          checkPopupClosed, checks, polls, winState, winUrl, opens,
          failAlerts, initAlerts, notified, refetches, logged, phase, last>>

modalVars == <<showAddConnection, modalId, pendingConnection>>
sessionVars == <<nSessions, owner, data, popup, opens>>
timerVars == <<pollInterval, checkPopupClosed>>
windowVars == <<winState, winUrl>>
outputVars == <<failAlerts, initAlerts, notified, refetches, logged>>

\* record of the callback that ran last
Ev(op, s, m, a) == [op |-> op, sess |-> s, modal |-> m, awaiting |-> a]

\* the server derives the authorization url from the connection it created
AuthUrl(c) == 100 + c

\* initiateMutation.isLoading as seen by the mounted modal instance
isLoading == \E i \in initiateMutation : i.modal = modalId

\* disabled={!!pendingConnection || initiateMutation.isLoading}
ConnectDisabled == pendingConnection # NoPending \/ isLoading

\* disabled={!!pendingConnection} of the close button
CloseDisabled == pendingConnection # NoPending

\* disabled={!!pendingConnection} of the search box
SearchDisabled == pendingConnection # NoPending

\* a state setter of a modal instance acts only while that instance is mounted
Mounted(m) == showAddConnection /\ modalId = m

\* setPendingConnection(v) called from a closure of modal instance m
SetPendingConnection(m, v) ==
    pendingConnection' = IF Mounted(m) THEN v ELSE pendingConnection

\* remove the k-th element of a sequence
RemoveAt(q, k) == [j \in 1..(Len(q) - 1) |-> IF j < k THEN q[j] ELSE q[j + 1]]

Init ==
    /\ showAddConnection = FALSE
    /\ modalId = 0
    /\ pendingConnection = NoPending
    /\ initiateMutation = {}
    /\ nextConn = 0
    /\ nSessions = 0
    /\ owner = [s \in Sessions |-> 0]
    /\ data = [s \in Sessions |-> NoData]
    /\ popup = [s \in Sessions |-> 0]
    /\ pollInterval = [s \in Sessions |-> FALSE]
    /\ checkPopupClosed = [s \in Sessions |-> FALSE]
    /\ checks = [s \in Sessions |-> <<>>]
    /\ polls = 0
    /\ winState = [w \in Windows |-> "none"]
    /\ winUrl = [w \in Windows |-> 0]
    /\ opens = [s \in Sessions |-> 0]
    /\ failAlerts = [s \in Sessions |-> 0]
    /\ initAlerts = 0
    /\ notified = [s \in Sessions |-> 0]
    /\ refetches = 0
    /\ logged = [s \in Sessions |-> 0]
    /\ phase = [s \in Sessions |-> "IDLE"]
    /\ last = Ev("init", 0, 0, FALSE)

\* ---- ConnectionManager ----

\* onClick={() => setShowAddConnection(true)}: a fresh modal instance mounts
OpenModal ==
    /\ ~showAddConnection
    /\ modalId < MaxModals
    /\ showAddConnection' = TRUE
    /\ modalId' = modalId + 1
    /\ pendingConnection' = NoPending
    /\ last' = Ev("open", 0, modalId + 1, FALSE)
    /\ UNCHANGED <<initiateMutation, nextConn, sessionVars, timerVars, checks,
                   polls, windowVars, outputVars, phase>>

\* the modal's close button: onClose = () => setShowAddConnection(false)
CloseModal ==
    /\ showAddConnection
    /\ ~CloseDisabled
    /\ showAddConnection' = FALSE
    /\ pendingConnection' = NoPending
    /\ last' = Ev("close", 0, modalId, FALSE)
    /\ UNCHANGED <<modalId, initiateMutation, nextConn, sessionVars, timerVars,
                   checks, polls, windowVars, outputVars, phase>>

\* ---- AddConnectionModal ----

\* click on a toolkit button: handleConnect -> initiateMutation.mutateAsync
handleConnect(slug) ==
    /\ showAddConnection
    /\ ~ConnectDisabled
    /\ Cardinality(initiateMutation) + nSessions + initAlerts < MaxInitiates
    /\ initiateMutation' = initiateMutation \cup {[modal |-> modalId, slug |-> slug]}
    /\ last' = Ev("connect", 0, modalId, FALSE)
    /\ UNCHANGED <<modalVars, nextConn, sessionVars, timerVars, checks, polls,
                   windowVars, outputVars, phase>>

\* window.open(data.auth_url, 'OAuth', ...): the window named OAuth is reused
\* when it is still open, otherwise a new window w is created; the call may
\* also be blocked and return null (w = 0)
WindowOpen(w, url) ==
    /\ \/ w = 0
       \/ w # 0 /\ winState[w] = "open"
       \/ /\ w # 0
          /\ \A v \in Windows : winState[v] # "open"
          /\ winState[w] = "none"
          /\ \A v \in Windows : v < w => winState[v] # "none"
    /\ winState' = IF w = 0 THEN winState ELSE [winState EXCEPT ![w] = "open"]
    /\ winUrl' = IF w = 0 THEN winUrl ELSE [winUrl EXCEPT ![w] = url]

\* initiateMutation.onSuccess: the callback of the mutation runs also when the
\* modal instance that started it has been unmounted in the meantime
onSuccessInitiate(i, w) ==
    /\ i \in initiateMutation
    /\ LET s == nSessions + 1
           d == [connection_id |-> nextConn + 1,
                 auth_url |-> AuthUrl(nextConn + 1),
                 toolkit_slug |-> i.slug]
       IN /\ initiateMutation' = initiateMutation \ {i}
          /\ nextConn' = nextConn + 1
          /\ nSessions' = s
          /\ owner' = [owner EXCEPT ![s] = i.modal]
          /\ data' = [data EXCEPT ![s] = d]
          /\ WindowOpen(w, d.auth_url)
          /\ opens' = [opens EXCEPT ![s] = @ + 1]
          /\ popup' = [popup EXCEPT ![s] = w]
          /\ SetPendingConnection(i.modal,
                 [connectionId |-> d.connection_id, appType |-> d.toolkit_slug,
                  popup |-> w])
          /\ pollInterval' = [pollInterval EXCEPT ![s] = TRUE]
          /\ checkPopupClosed' = [checkPopupClosed EXCEPT ![s] = TRUE]
          /\ phase' = [phase EXCEPT ![s] = "AWAITING_AUTH"]
          /\ last' = Ev("initiated", s, i.modal, FALSE)
    /\ UNCHANGED <<showAddConnection, modalId, checks, polls, outputVars>>

\* variant of onErrorInitiate that alerts and then issues the call again
onErrorInitiate_Retries(i, created) ==
    /\ i \in initiateMutation
    /\ initAlerts < MaxInitiates
    /\ nextConn' = IF created /\ nextConn < MaxInitiates - 1
                   THEN nextConn + 1 ELSE nextConn
    /\ initAlerts' = initAlerts + 1
    /\ last' = Ev("initiateError", 0, i.modal, FALSE)
    /\ UNCHANGED <<modalVars, initiateMutation, sessionVars, timerVars, checks,
                   polls, windowVars, failAlerts, notified, refetches, logged,
                   phase>>

\* initiateMutation.onError: alert; the server may or may not have created a
\* connection before the call failed
onErrorInitiate(i, created) ==
    /\ i \in initiateMutation
    /\ initiateMutation' = initiateMutation \ {i}
    /\ nextConn' = IF created THEN nextConn + 1 ELSE nextConn
    /\ initAlerts' = initAlerts + 1
    /\ last' = Ev("initiateError", 0, i.modal, FALSE)
    /\ UNCHANGED <<modalVars, sessionVars, timerVars, checks, polls, windowVars,
                   failAlerts, notified, refetches, logged, phase>>

\* popup?.close()
PopupClose(s) ==
    winState' = IF popup[s] # 0
                THEN [winState EXCEPT ![popup[s]] = "closed"]
                ELSE winState

\* popup?.closed
PopupClosed(s) == popup[s] # 0 /\ winState[popup[s]] = "closed"

\* the session is between its start and its first terminal transition: every
\* terminal branch clears pollInterval and nothing else does
AwaitingAuth(s) == pollInterval[s]

\* the state machine leaves AWAITING_AUTH by the first terminal branch that runs
Terminal(p, t) == IF p = "AWAITING_AUTH" THEN t ELSE p

\* variant of PollTick that reads the connection id from the modal state
\* instead of the response captured by the closure
PollTick_FromPending(s) ==
    /\ pollInterval[s]
    /\ polls < MaxPolls
    /\ polls' = polls + 1
    /\ checks' = [checks EXCEPT ![s] = Append(@, pendingConnection.connectionId)]
    /\ last' = Ev("poll", s, owner[s], AwaitingAuth(s))
    /\ UNCHANGED <<modalVars, initiateMutation, nextConn, sessionVars, timerVars,
                   windowVars, outputVars, phase>>

\* the pollInterval callback up to its await: checkConnectionStatus is called
PollTick(s) ==
    /\ pollInterval[s]
    /\ polls < MaxPolls
    /\ polls' = polls + 1
    /\ checks' = [checks EXCEPT ![s] = Append(@, data[s].connection_id)]
    /\ last' = Ev("poll", s, owner[s], AwaitingAuth(s))
    /\ UNCHANGED <<modalVars, initiateMutation, nextConn, sessionVars, timerVars,
                   windowVars, outputVars, phase>>

\* variant of StatusResponse that takes EXPIRED for a failure of the connection
StatusResponse_ExpiredFails(s, k, st) ==
    /\ k \in 1..Len(checks[s])
    /\ checks' = [checks EXCEPT ![s] = RemoveAt(@, k)]
    /\ last' = Ev(st, s, owner[s], AwaitingAuth(s))
    /\ IF st = "ACTIVE"
       THEN /\ pollInterval' = [pollInterval EXCEPT ![s] = FALSE]
            /\ PopupClose(s)
            /\ pendingConnection' = NoPending
            /\ showAddConnection' = FALSE
            /\ refetches' = refetches + 1
            /\ notified' = [notified EXCEPT ![s] = @ + 1]
            /\ phase' = [phase EXCEPT ![s] = Terminal(@, "ACTIVE")]
            /\ UNCHANGED <<failAlerts>>
       ELSE IF st \in {"FAILED", "EXPIRED"}
       THEN /\ pollInterval' = [pollInterval EXCEPT ![s] = FALSE]
            /\ PopupClose(s)
            /\ SetPendingConnection(owner[s], NoPending)
            /\ failAlerts' = [failAlerts EXCEPT ![s] = @ + 1]
            /\ phase' = [phase EXCEPT ![s] = Terminal(@, "FAILED")]
            /\ UNCHANGED <<showAddConnection, refetches, notified>>
       ELSE UNCHANGED <<pollInterval, winState, pendingConnection,
                        showAddConnection, refetches, notified, failAlerts,
                        phase>>
    /\ UNCHANGED <<modalId, initiateMutation, nextConn, sessionVars,
                   checkPopupClosed, polls, winUrl, initAlerts, logged>>

\* the pollInterval callback after its await: the k-th check in flight of
\* session s is answered with status st
StatusResponse(s, k, st) ==
    /\ k \in 1..Len(checks[s])
    /\ checks' = [checks EXCEPT ![s] = RemoveAt(@, k)]
    /\ last' = Ev(st, s, owner[s], AwaitingAuth(s))
    /\ IF st = "ACTIVE"
       THEN /\ pollInterval' = [pollInterval EXCEPT ![s] = FALSE]
            /\ PopupClose(s)
            \* setPendingConnection(null); onSuccess() unmounts the modal
            /\ pendingConnection' = NoPending
            /\ showAddConnection' = FALSE
            /\ refetches' = refetches + 1
            /\ notified' = [notified EXCEPT ![s] = @ + 1]
            /\ phase' = [phase EXCEPT ![s] = Terminal(@, "ACTIVE")]
            /\ UNCHANGED <<failAlerts>>
       ELSE IF st = "FAILED"
       THEN /\ pollInterval' = [pollInterval EXCEPT ![s] = FALSE]
            /\ PopupClose(s)
            /\ SetPendingConnection(owner[s], NoPending)
            /\ failAlerts' = [failAlerts EXCEPT ![s] = @ + 1]
            /\ phase' = [phase EXCEPT ![s] = Terminal(@, "FAILED")]
            /\ UNCHANGED <<showAddConnection, refetches, notified>>
       ELSE UNCHANGED <<pollInterval, winState, pendingConnection,
                        showAddConnection, refetches, notified, failAlerts,
                        phase>>
    /\ UNCHANGED <<modalId, initiateMutation, nextConn, sessionVars,
                   checkPopupClosed, polls, winUrl, initAlerts, logged>>

\* variant of StatusError that treats a thrown status check as a failure of
\* the connection
StatusError_Terminates(s, k) ==
    /\ k \in 1..Len(checks[s])
    /\ checks' = [checks EXCEPT ![s] = RemoveAt(@, k)]
    /\ logged' = [logged EXCEPT ![s] = @ + 1]
    /\ pollInterval' = [pollInterval EXCEPT ![s] = FALSE]
    /\ SetPendingConnection(owner[s], NoPending)
    /\ failAlerts' = [failAlerts EXCEPT ![s] = @ + 1]
    /\ phase' = [phase EXCEPT ![s] = Terminal(@, "FAILED")]
    /\ last' = Ev("statusError", s, owner[s], AwaitingAuth(s))
    /\ UNCHANGED <<showAddConnection, modalId, initiateMutation, nextConn,
                   sessionVars, checkPopupClosed, polls, windowVars, initAlerts,
                   notified, refetches>>

\* the pollInterval callback after its await when checkConnectionStatus throws
StatusError(s, k) ==
    /\ k \in 1..Len(checks[s])
    /\ checks' = [checks EXCEPT ![s] = RemoveAt(@, k)]
    /\ logged' = [logged EXCEPT ![s] = @ + 1]
    /\ last' = Ev("statusError", s, owner[s], AwaitingAuth(s))
    /\ UNCHANGED <<modalVars, initiateMutation, nextConn, sessionVars, timerVars,
                   polls, windowVars, failAlerts, initAlerts, notified, refetches,
                   phase>>

\* variant of PopupTick that stops only itself and leaves the poll timer running
PopupTick_KeepsPolling(s) ==
    /\ checkPopupClosed[s]
    /\ IF PopupClosed(s)
       THEN /\ checkPopupClosed' = [checkPopupClosed EXCEPT ![s] = FALSE]
            /\ SetPendingConnection(owner[s], NoPending)
            /\ phase' = [phase EXCEPT ![s] = Terminal(@, "CANCELLED")]
            /\ last' = Ev("popupClosed", s, owner[s], AwaitingAuth(s))
            /\ UNCHANGED pollInterval
       ELSE /\ UNCHANGED <<timerVars, pendingConnection, phase>>
            /\ last' = Ev("popupAlive", s, owner[s], AwaitingAuth(s))
    /\ UNCHANGED <<showAddConnection, modalId, initiateMutation, nextConn,
                   sessionVars, checks, polls, windowVars, outputVars>>

\* variant of PopupTick that reports the closed popup as a failed connection
PopupTick_Alerts(s) ==
    /\ checkPopupClosed[s]
    /\ IF PopupClosed(s)
       THEN /\ pollInterval' = [pollInterval EXCEPT ![s] = FALSE]
            /\ checkPopupClosed' = [checkPopupClosed EXCEPT ![s] = FALSE]
            /\ SetPendingConnection(owner[s], NoPending)
            /\ failAlerts' = [failAlerts EXCEPT ![s] = @ + 1]
            /\ phase' = [phase EXCEPT ![s] = Terminal(@, "CANCELLED")]
            /\ last' = Ev("popupClosed", s, owner[s], AwaitingAuth(s))
       ELSE /\ UNCHANGED <<timerVars, pendingConnection, phase, failAlerts>>
            /\ last' = Ev("popupAlive", s, owner[s], AwaitingAuth(s))
    /\ UNCHANGED <<showAddConnection, modalId, initiateMutation, nextConn,
                   sessionVars, checks, polls, windowVars, initAlerts, notified,
                   refetches, logged>>

\* the checkPopupClosed callback
PopupTick(s) ==
    /\ checkPopupClosed[s]
    /\ IF PopupClosed(s)
       THEN /\ pollInterval' = [pollInterval EXCEPT ![s] = FALSE]
            /\ checkPopupClosed' = [checkPopupClosed EXCEPT ![s] = FALSE]
            /\ SetPendingConnection(owner[s], NoPending)
            /\ phase' = [phase EXCEPT ![s] = Terminal(@, "CANCELLED")]
            /\ last' = Ev("popupClosed", s, owner[s], AwaitingAuth(s))
       ELSE /\ UNCHANGED <<timerVars, pendingConnection, phase>>
            /\ last' = Ev("popupAlive", s, owner[s], AwaitingAuth(s))
    /\ UNCHANGED <<showAddConnection, modalId, initiateMutation, nextConn,
                   sessionVars, checks, polls, windowVars, outputVars>>

\* ---- the user, in the popup ----

\* the user closes the OAuth window
UserClosesPopup(w) ==
    /\ winState[w] = "open"
    /\ winState' = [winState EXCEPT ![w] = "closed"]
    /\ last' = Ev("userClose", 0, modalId, FALSE)
    /\ UNCHANGED <<modalVars, initiateMutation, nextConn, sessionVars, timerVars,
                   checks, polls, winUrl, outputVars, phase>>

\* ======================================================================
\* Schema renderer: SchemaDisplay / PropertyItem
\* ======================================================================

\* nesting depth of the generated input schemas
MaxDepth == 1

VARIABLES
    schema,       \* the schema prop of the root SchemaDisplay (never assigned)
    isExpanded,   \* path of a mounted PropertyItem -> its isExpanded state
    touched,      \* has the user clicked since the renderer was mounted
    opened,       \* the paths below the root a click has expanded since then
    lastUi        \* the last event of the renderer: [op, path]

schemaVars == <<schema, isExpanded, touched, opened, lastUi>>

\* a value of SchemaProperty.type: a string, or a list of strings
T(s) == [list |-> FALSE, v |-> <<s>>]
TL(q) == [list |-> TRUE, v |-> q]

\* a properties map without entries: {}
EmptyMap == [n \in {} |-> 0]

\* schema = null / undefined
NullSchema == [null |-> TRUE]

\* {c: {type: "number"}}
MapC == [n \in {"c"} |-> [type |-> T("number")]]

\* a value of SchemaProperty.required: a list of names, or the boolean true
ReqList(names) == [list |-> TRUE, v |-> names]
ReqBool == [list |-> FALSE, bool |-> TRUE]

\* the properties a schema tree is built from; an optional field of
\* SchemaProperty that is absent is absent from the record
Kinds ==
    { [type |-> T("string")],
      [type |-> TL(<<"string", "null">>)],
      [type |-> TL(<<"object">>), properties |-> MapC],
      [description |-> "no type"],
      [type |-> T("array"), items |-> [type |-> T("string")]],
      [type |-> T("array"), items |-> [type |-> TL(<<"string", "null">>)]],
      [type |-> T("array"), items |-> [description |-> "no type"]],
      [type |-> T("array")],
      [type |-> T("object")],
      [type |-> T("object"), properties |-> EmptyMap],
      [type |-> T("string"), properties |-> MapC],
      [type |-> T("array"), items |-> [type |-> T("object"), properties |-> EmptyMap]],
      [type |-> T("object"), properties |-> MapC],
      [type |-> T("array"), items |-> [type |-> T("object"), properties |-> MapC]],
      [type |-> T("object"), properties |-> MapC, required |-> ReqList({"c"})],
      [type |-> T("object"), properties |-> MapC, required |-> ReqBool],
      [type |-> T("array"),
       items |-> [type |-> T("object"), properties |-> MapC,
                  required |-> ReqList({"c"})]],
      [type |-> T("array"), required |-> ReqList({"c"}),
       items |-> [type |-> T("object"), properties |-> MapC]] }

\* the properties that stand next to a nested container
SiblingKinds ==
    { [type |-> TL(<<"string", "null">>)],
      [type |-> T("array"), items |-> [type |-> T("string")]],
      [type |-> T("object"), properties |-> EmptyMap],
      [type |-> T("object"), properties |-> MapC],
      [type |-> T("object"), properties |-> MapC, required |-> ReqBool] }

\* an object, and an array of objects, for each properties map of M
Containers(M) ==
    {[type |-> T("object"), properties |-> m] : m \in M}
        \cup {[type |-> T("array"),
               items |-> [type |-> T("object"), properties |-> m]] : m \in M}

\* the properties maps nested at most d deep below their own entries
RECURSIVE Level(_)
Level(d) ==
    IF d = 0
    THEN {EmptyMap} \cup {[n \in {"a"} |-> k] : k \in Kinds}
    ELSE Level(0) \cup
         {[n \in {"a", "b"} |-> IF n = "a" THEN k ELSE c] :
              k \in SiblingKinds, c \in Containers(Level(d - 1))}

\* {type:"object", properties:{a:{type:"string"},
\*  b:{type:"object", properties:{c:{type:"number"}}}}}
ExampleSchema ==
    [type |-> T("object"),
     properties |-> [n \in {"a", "b"} |->
         IF n = "a" THEN [type |-> T("string")]
         ELSE [type |-> T("object"), properties |-> MapC]]]

\* the schemas the renderer is given
SchemaInputs ==
    {NullSchema, [type |-> T("object")], ExampleSchema}
        \cup {[type |-> T("object"), properties |-> m] : m \in Level(MaxDepth)}
        \cup {[type |-> T("object"), properties |-> m,
               required |-> ReqList({"a"})] : m \in Level(MaxDepth)}

\* property.f is present
Has(p, f) == f \in DOMAIN p

hasNestedProperties_AnyItems(p) ==
    \/ Has(p, "type") /\ p.type = T("object") /\ Has(p, "properties")
    \/ Has(p, "type") /\ p.type = T("array") /\ Has(p, "items")

\* hasNestedProperties of PropertyItem
hasNestedProperties(p) ==
    \/ Has(p, "type") /\ p.type = T("object") /\ Has(p, "properties")
    \/ /\ Has(p, "type") /\ p.type = T("array")
       /\ Has(p, "items") /\ Has(p.items, "properties")

\* Array.prototype.join
RECURSIVE Join(_, _)
Join(q, sep) ==
    IF Len(q) = 0 THEN ""
    ELSE IF Len(q) = 1 THEN q[1]
    ELSE q[1] \o sep \o Join(Tail(q), sep)

\* ${property.items.type || 'any'}: a list is converted with Array.toString
ItemTypeText(i) ==
    IF ~Has(i, "type") THEN "any"
    ELSE IF i.type.list THEN Join(i.type.v, ",")
    ELSE i.type.v[1]

displayType_CommaJoin(p) ==
    IF Has(p, "type") /\ p.type.list THEN Join(p.type.v, ", ")
    ELSE IF Has(p, "type") /\ p.type = T("array") /\ Has(p, "items")
    THEN "array<" \o ItemTypeText(p.items) \o ">"
    ELSE IF Has(p, "type") THEN p.type.v[1]
    ELSE "any"

\* displayType of PropertyItem
displayType(p) ==
    IF Has(p, "type") /\ p.type.list THEN Join(p.type.v, " | ")
    ELSE IF Has(p, "type") /\ p.type = T("array") /\ Has(p, "items")
    THEN "array<" \o ItemTypeText(p.items) \o ">"
    ELSE IF Has(p, "type") THEN p.type.v[1]
    ELSE "any"

\* the chevron in the header of a PropertyItem
Chevron(p, expanded) ==
    IF hasNestedProperties(p)
    THEN (IF expanded THEN "ChevronDown" ELSE "ChevronRight")
    ELSE "none"

ShowsObject_WhenCollapsed(p, expanded) ==
    /\ ~expanded
    /\ Has(p, "type") /\ p.type = T("object")
    /\ Has(p, "properties")
    /\ Cardinality(DOMAIN p.properties) > 0

\* the two conditions under which PropertyItem renders a nested SchemaDisplay
ShowsObject(p, expanded) ==
    /\ expanded
    /\ Has(p, "type") /\ p.type = T("object")
    /\ Has(p, "properties")
    /\ Cardinality(DOMAIN p.properties) > 0

ShowsArray(p, expanded) ==
    /\ expanded
    /\ Has(p, "type") /\ p.type = T("array")
    /\ Has(p, "items") /\ Has(p.items, "properties")
    /\ Cardinality(DOMAIN p.items.properties) > 0

NestedShown(p, expanded) == ShowsObject(p, expanded) \/ ShowsArray(p, expanded)

RequiredList_BooleanMeansAll(r) ==
    IF ~Has(r, "required") THEN {}
    ELSE IF r.required.list THEN r.required.v
    ELSE DOMAIN r.properties

\* Array.isArray(r.required) ? r.required : []
RequiredList(r) ==
    IF Has(r, "required") /\ r.required.list THEN r.required.v ELSE {}

\* the schema prop PropertyItem passes to its nested SchemaDisplay
NestedSchema(p) ==
    IF Has(p, "type") /\ p.type = T("object")
    THEN [type |-> T("object"), properties |-> p.properties,
          required |-> ReqList(RequiredList(p))]
    ELSE [type |-> T("object"), properties |-> p.items.properties,
          required |-> ReqList(RequiredList(p.items))]

\* SchemaDisplay shows the 'No parameters defined' placeholder
Placeholder(sch) == sch = NullSchema \/ ~Has(sch, "properties")

\* what the root SchemaDisplay returns: the placeholder or the list of items
RootOutput ==
    IF Placeholder(schema) THEN "No parameters defined" ELSE "PropertyItems"

\* the property a path of names leads to, below the properties map props
RECURSIVE Lookup(_, _)
Lookup(props, path) ==
    LET p == props[Head(path)]
    IN IF Len(path) = 1 THEN p
       ELSE Lookup(NestedSchema(p).properties, Tail(path))

PropAt(path) == Lookup(schema.properties, path)

InitialExpanded_Always(level) == TRUE

\* the initial state of isExpanded: useState(level === 0)
InitialExpanded(level) == level = 0

\* the PropertyItems a SchemaDisplay mounts for schema sch at the given level,
\* below the item at path prefix: pairs <<path, initial isExpanded>>
RECURSIVE MountDisplay(_, _, _)
MountDisplay(sch, prefix, level) ==
    IF Placeholder(sch) THEN {}
    ELSE UNION {
        {<<Append(prefix, n), InitialExpanded(level)>>} \cup
            (IF NestedShown(sch.properties[n], InitialExpanded(level))
             THEN MountDisplay(NestedSchema(sch.properties[n]),
                               Append(prefix, n), level + 1)
             ELSE {})
        : n \in DOMAIN sch.properties }

\* the state function of a set of <<path, isExpanded>> pairs
StateOf(pairs) ==
    [q \in {x[1] : x \in pairs} |-> \E x \in pairs : x[1] = q /\ x[2]]

\* the level prop of the PropertyItem at path (the root SchemaDisplay has the
\* default level 0)
LevelOf(path) == Len(path) - 1

\* the schema prop of the SchemaDisplay that renders the item at path
RenderedFrom(path) ==
    IF Len(path) = 1 THEN schema
    ELSE NestedSchema(PropAt(SubSeq(path, 1, Len(path) - 1)))

\* the isRequired prop of the PropertyItem at path:
\* (schema.required || []).includes(name)
isRequired(path) ==
    LET sch == RenderedFrom(path)
    IN Has(sch, "required") /\ path[Len(path)] \in sch.required.v

\* path q lies strictly below path p
Below(p, q) == Len(q) > Len(p) /\ SubSeq(q, 1, Len(p)) = p

UiEv(op, path) == [op |-> op, path |-> path]

SchemaInit_PlaceholderItem ==
    /\ schema \in SchemaInputs
    /\ isExpanded = IF Placeholder(schema) THEN [q \in {<<"value">>} |-> TRUE]
                    ELSE StateOf(MountDisplay(schema, <<>>, 0))
    /\ touched = FALSE
    /\ opened = {}
    /\ lastUi = UiEv("mount", <<>>)

SchemaInit ==
    /\ schema \in SchemaInputs
    /\ isExpanded = StateOf(MountDisplay(schema, <<>>, 0))
    /\ touched = FALSE
    /\ opened = {}
    /\ lastUi = UiEv("mount", <<>>)

Toggle_KeepsDescendants(path) ==
    /\ path \in DOMAIN isExpanded
    /\ LET p == PropAt(path)
           e == ~isExpanded[path]
           kept == {<<q, isExpanded[q]>> : q \in DOMAIN isExpanded \ {path}}
           fresh == IF NestedShown(p, e)
                    THEN {x \in MountDisplay(NestedSchema(p), path,
                                             LevelOf(path) + 1) :
                              x[1] \notin DOMAIN isExpanded}
                    ELSE {}
       IN isExpanded' = IF hasNestedProperties(p)
                        THEN StateOf(kept \cup {<<path, e>>} \cup fresh)
                        ELSE isExpanded
    /\ touched' = TRUE
    /\ opened' = IF LevelOf(path) > 0 /\ isExpanded'[path]
                  THEN opened \cup {path} ELSE opened
    /\ lastUi' = UiEv("click", path)
    /\ UNCHANGED schema

Toggle_NormalisesRequired(path) ==
    /\ path \in DOMAIN isExpanded
    /\ isExpanded' = [isExpanded EXCEPT ![path] =
                          IF hasNestedProperties(PropAt(path)) THEN ~@ ELSE @]
    /\ schema' = [type |-> T("object"), properties |-> schema.properties,
                  required |-> ReqList(RequiredList(schema))]
    /\ touched' = TRUE
    /\ lastUi' = UiEv("click", path)
    /\ UNCHANGED opened

\* onClick of the header of the PropertyItem at path:
\* hasNestedProperties && setIsExpanded(!isExpanded); collapsing unmounts the
\* nested SchemaDisplay, expanding mounts a fresh one
Toggle(path) ==
    /\ path \in DOMAIN isExpanded
    /\ LET p == PropAt(path)
           e == ~isExpanded[path]
           kept == {<<q, isExpanded[q]>> : q \in {r \in DOMAIN isExpanded : ~Below(path, r) /\ r # path}}
           fresh == IF NestedShown(p, e)
                    THEN MountDisplay(NestedSchema(p), path, LevelOf(path) + 1)
                    ELSE {}
       IN isExpanded' = IF hasNestedProperties(p)
                        THEN StateOf(kept \cup {<<path, e>>} \cup fresh)
                        ELSE isExpanded
    /\ touched' = TRUE
    /\ opened' = IF LevelOf(path) > 0 /\ path \in DOMAIN isExpanded'
                     /\ isExpanded'[path]
                  THEN opened \cup {path} ELSE opened
    /\ lastUi' = UiEv("click", path)
    /\ UNCHANGED schema

Rerender_CollapsesAll ==
    /\ isExpanded' = [q \in DOMAIN isExpanded |-> FALSE]
    /\ lastUi' = UiEv("render", <<>>)
    /\ UNCHANGED <<schema, touched, opened>>

\* the parent renders again with the same schema object: React keeps the state
\* of the mounted components
Rerender ==
    /\ lastUi' = UiEv("render", <<>>)
    /\ UNCHANGED <<schema, isExpanded, touched, opened>>

\* the tool card is collapsed and expanded again: the renderer is mounted anew
Remount ==
    /\ isExpanded' = StateOf(MountDisplay(schema, <<>>, 0))
    /\ touched' = FALSE
    /\ opened' = {}
    /\ lastUi' = UiEv("mount", <<>>)
    /\ UNCHANGED schema

\* ======================================================================
\* Canvas store: useCanvasStore
\* ======================================================================

\* calls of one store action that may be in flight together
MaxCalls == 2

VARIABLES
    nodes,          \* CanvasState.nodes
    edges,          \* CanvasState.edges
    selectedNode,   \* CanvasState.selectedNode
    isExecuting,    \* CanvasState.isExecuting
    executing,      \* executeWorkflow calls waiting for their api.post
    loading,        \* loadCanvas calls waiting for their api.get
    saving,         \* saveCanvas calls waiting for their api.post
    lastCanvas      \* the last event of the store: [op, outcome]

canvasVars == <<nodes, edges, selectedNode, isExecuting, executing, loading,
                saving, lastCanvas>>

canvasData == <<nodes, edges, selectedNode>>

NodeLists == {<<>>, <<"n1">>}
EdgeLists == {<<>>, <<"e1">>}

\* selectedNode: string | null
NodeIds == {"null", "n1"}

\* an event of the store and how the call ended: its promise resolved with
\* the data ("data"), resolved with null ("null") or rejected ("thrown")
CanvasEv(op, outcome) == [op |-> op, outcome |-> outcome]

CanvasInit ==
    /\ nodes = <<>>
    /\ edges = <<>>
    /\ selectedNode = "null"
    /\ isExecuting = FALSE
    /\ executing = 0
    /\ loading = 0
    /\ saving = 0
    /\ lastCanvas = CanvasEv("create", "none")

\* setNodes: (nodes) => set({ nodes })
setNodes(v) ==
    /\ nodes' = v
    /\ lastCanvas' = CanvasEv("setNodes", "none")
    /\ UNCHANGED <<edges, selectedNode, isExecuting, executing, loading, saving>>

\* setEdges: (edges) => set({ edges })
setEdges(v) ==
    /\ edges' = v
    /\ lastCanvas' = CanvasEv("setEdges", "none")
    /\ UNCHANGED <<nodes, selectedNode, isExecuting, executing, loading, saving>>

\* setSelectedNode: (nodeId) => set({ selectedNode: nodeId })
setSelectedNode(v) ==
    /\ selectedNode' = v
    /\ lastCanvas' = CanvasEv("setSelectedNode", "none")
    /\ UNCHANGED <<nodes, edges, isExecuting, executing, loading, saving>>

\* loadCanvas up to its await
loadCanvas ==
    /\ loading < MaxCalls
    /\ loading' = loading + 1
    /\ lastCanvas' = CanvasEv("loadCanvas", "none")
    /\ UNCHANGED <<canvasData, isExecuting, executing, saving>>

\* loadCanvas after its await: return response.data, or log and return null
loadCanvasSettles(ok) ==
    /\ loading > 0
    /\ loading' = loading - 1
    /\ lastCanvas' = CanvasEv("loadCanvasSettles", IF ok THEN "data" ELSE "null")
    /\ UNCHANGED <<canvasData, isExecuting, executing, saving>>

\* saveCanvas up to its await
saveCanvas ==
    /\ saving < MaxCalls
    /\ saving' = saving + 1
    /\ lastCanvas' = CanvasEv("saveCanvas", "none")
    /\ UNCHANGED <<canvasData, isExecuting, executing, loading>>

\* saveCanvas after its await: return, or log and throw the error
saveCanvasSettles(ok) ==
    /\ saving > 0
    /\ saving' = saving - 1
    /\ lastCanvas' = CanvasEv("saveCanvasSettles", IF ok THEN "data" ELSE "thrown")
    /\ UNCHANGED <<canvasData, isExecuting, executing, loading>>

\* executeWorkflow up to its await: set({ isExecuting: true })
executeWorkflow ==
    /\ executing < MaxCalls
    /\ isExecuting' = TRUE
    /\ executing' = executing + 1
    /\ lastCanvas' = CanvasEv("executeWorkflow", "none")
    /\ UNCHANGED <<canvasData, loading, saving>>

\* executeWorkflow after its await: return response.data, or log and throw
\* the error; finally set({ isExecuting: false })
executeWorkflowSettles(ok) ==
    /\ executing > 0
    /\ executing' = executing - 1
    /\ isExecuting' = FALSE
    /\ lastCanvas' = CanvasEv("executeWorkflowSettles",
                              IF ok THEN "data" ELSE "thrown")
    /\ UNCHANGED <<canvasData, loading, saving>>

\* ======================================================================
\* Credential service: CredentialService.initialize
\* ======================================================================

\* callers of initialize / ensureInitialized that may run together
MaxCallers == 2

\* setups that may be started in one behaviour
MaxSetups == 3

VARIABLES
    initialized,   \* this.initialized
    store,         \* this.store is set
    stronghold,    \* this.stronghold is set
    client,        \* this.client is set
    vaultKeyStored,\* 'vault_key' of settings.json: 0 for none, else the key
    pc,            \* caller -> the await its call of initialize is waiting at
    vaultKey,      \* caller -> the local vaultKey of getOrCreateVaultKey
    keysCreated,   \* calls of generateSecureKey
    setups,        \* calls of initialize that got past the initialized test
    lastCred       \* the last event of the service: [op, caller, outcome]

credVars == <<initialized, store, stronghold, client, vaultKeyStored, pc,
              vaultKey, keysCreated, setups, lastCred>>

\* what the setup writes
credSetup == <<store, stronghold, client, vaultKeyStored, keysCreated, setups>>

Callers == 1..MaxCallers

\* the two entries into the setup
Entries == {"initialize", "ensureInitialized"}

CredEv(op, c, outcome) == [op |-> op, caller |-> c, outcome |-> outcome]

\* the callers whose call of initialize has not settled
InSetup == {c \in Callers : pc[c] # "idle"}

CredInit ==
    /\ initialized = FALSE
    /\ store = FALSE
    /\ stronghold = FALSE
    /\ client = FALSE
    /\ vaultKeyStored = 0
    /\ pc = [c \in Callers |-> "idle"]
    /\ vaultKey = [c \in Callers |-> 0]
    /\ keysCreated = 0
    /\ setups = 0
    /\ lastCred = CredEv("construct", 0, "none")

\* initialize() / ensureInitialized() up to the first await: return when
\* this.initialized, else enter getOrCreateVaultKey, which loads the store
\* when this.store is not set
initialize(c, entry) ==
    /\ pc[c] = "idle"
    /\ IF initialized
       THEN /\ lastCred' = CredEv(entry, c, "returned")
            /\ UNCHANGED <<pc, setups>>
       ELSE /\ setups < MaxSetups
            /\ setups' = setups + 1
            /\ pc' = [pc EXCEPT ![c] = IF store THEN "get" ELSE "Store.load"]
            /\ lastCred' = CredEv(entry, c, "setup")
    /\ UNCHANGED <<initialized, store, stronghold, client, vaultKeyStored,
                   vaultKey, keysCreated>>

\* getOrCreateVaultKey: this.store = await Store.load('settings.json')
storeLoaded(c) ==
    /\ pc[c] = "Store.load"
    /\ store' = TRUE
    /\ pc' = [pc EXCEPT ![c] = "get"]
    /\ lastCred' = CredEv("Store.load", c, "none")
    /\ UNCHANGED <<initialized, stronghold, client, vaultKeyStored, vaultKey,
                   keysCreated, setups>>

\* getOrCreateVaultKey: vaultKey = await this.store.get('vault_key'), and
\* generateSecureKey() when there is none
gotVaultKey(c) ==
    /\ pc[c] = "get"
    /\ IF vaultKeyStored = 0
       THEN /\ keysCreated' = keysCreated + 1
            /\ vaultKey' = [vaultKey EXCEPT ![c] = keysCreated + 1]
            /\ pc' = [pc EXCEPT ![c] = "set"]
       ELSE /\ vaultKey' = [vaultKey EXCEPT ![c] = vaultKeyStored]
            /\ pc' = [pc EXCEPT ![c] = "Stronghold.load"]
            /\ UNCHANGED keysCreated
    /\ lastCred' = CredEv("get", c, "none")
    /\ UNCHANGED <<initialized, store, stronghold, client, vaultKeyStored,
                   setups>>

\* getOrCreateVaultKey: await this.store.set('vault_key', vaultKey); save()
vaultKeySaved(c) ==
    /\ pc[c] = "set"
    /\ vaultKeyStored' = vaultKey[c]
    /\ pc' = [pc EXCEPT ![c] = "Stronghold.load"]
    /\ lastCred' = CredEv("set", c, "none")
    /\ UNCHANGED <<initialized, store, stronghold, client, vaultKey,
                   keysCreated, setups>>

\* this.stronghold = await Stronghold.load(vaultPath, vaultKey); when it
\* throws, initialize logs and throws 'Could not initialize secure storage'
strongholdLoaded(c, ok) ==
    /\ pc[c] = "Stronghold.load"
    /\ IF ok
       THEN /\ stronghold' = TRUE
            /\ pc' = [pc EXCEPT ![c] = "loadClient"]
            /\ lastCred' = CredEv("Stronghold.load", c, "none")
       ELSE /\ pc' = [pc EXCEPT ![c] = "idle"]
            /\ lastCred' = CredEv("Stronghold.load", c, "thrown")
            /\ UNCHANGED stronghold
    /\ UNCHANGED <<initialized, store, client, vaultKeyStored, vaultKey,
                   keysCreated, setups>>

\* this.client = await loadClient(clientName), or createClient(clientName)
clientLoaded(c) ==
    /\ pc[c] = "loadClient"
    /\ client' = TRUE
    /\ pc' = [pc EXCEPT ![c] = "settings"]
    /\ lastCred' = CredEv("loadClient", c, "none")
    /\ UNCHANGED <<initialized, store, stronghold, vaultKeyStored, vaultKey,
                   keysCreated, setups>>

\* this.store = await Store.load('settings.json'); this.initialized = true
settingsLoaded(c) ==
    /\ pc[c] = "settings"
    /\ store' = TRUE
    /\ initialized' = TRUE
    /\ pc' = [pc EXCEPT ![c] = "idle"]
    /\ lastCred' = CredEv("initialized", c, "returned")
    /\ UNCHANGED <<stronghold, client, vaultKeyStored, vaultKey, keysCreated,
                   setups>>

\* ======================================================================
\* Integrations page: handleConnectApp
\* ======================================================================

\* connect attempts in one behaviour
MaxAttempts == 2

\* verification requests in one behaviour
MaxVerifies == 3

VARIABLES
    nAttempts,       \* calls of handleConnectApp so far
    stage,           \* attempt -> "idle", "connecting", "polling" or "ended"
    scheduled,       \* attempt -> setTimeout(checkConnection) calls not yet fired
    inFlight,        \* attempt -> verify requests waiting for their answer
    verified,        \* verify requests sent so far
    connectedToasts, \* attempt -> toasts 'App connected successfully!'
    errorToasts,     \* attempt -> toasts 'Failed to verify connection'
    otherToasts,     \* toasts 'OAuth window opened...' and 'Failed to initiate...'
    refetched,       \* calls of refetch()
    lastInteg        \* the last event of the page: [op, attempt, status]

integVars == <<nAttempts, stage, scheduled, inFlight, verified,
               connectedToasts, errorToasts, otherToasts, refetched, lastInteg>>

Attempts == 1..MaxAttempts

\* status.data.status of a verify response
VerifyStatuses == {"connected", "pending", "failed"}

IntegEv(op, a, status) == [op |-> op, attempt |-> a, status |-> status]

IntegInit ==
    /\ nAttempts = 0
    /\ stage = [a \in Attempts |-> "idle"]
    /\ scheduled = [a \in Attempts |-> 0]
    /\ inFlight = [a \in Attempts |-> 0]
    /\ verified = 0
    /\ connectedToasts = [a \in Attempts |-> 0]
    /\ errorToasts = [a \in Attempts |-> 0]
    /\ otherToasts = 0
    /\ refetched = 0
    /\ lastInteg = IntegEv("render", 0, "none")

\* handleConnectApp up to its await: api.post('/integrations/apps/connect')
handleConnectApp ==
    /\ nAttempts < MaxAttempts
    /\ nAttempts' = nAttempts + 1
    /\ stage' = [stage EXCEPT ![nAttempts + 1] = "connecting"]
    /\ lastInteg' = IntegEv("connect", nAttempts + 1, "none")
    /\ UNCHANGED <<scheduled, inFlight, verified, connectedToasts, errorToasts,
                   otherToasts, refetched>>

\* handleConnectApp after its await: with an auth_url the window is opened,
\* a toast is shown and setTimeout(checkConnection, 2000) is called
connectResponse(a, hasUrl) ==
    /\ stage[a] = "connecting"
    /\ IF hasUrl
       THEN /\ stage' = [stage EXCEPT ![a] = "polling"]
            /\ scheduled' = [scheduled EXCEPT ![a] = @ + 1]
            /\ otherToasts' = otherToasts + 1
            /\ lastInteg' = IntegEv("opened", a, "none")
       ELSE /\ stage' = [stage EXCEPT ![a] = "ended"]
            /\ lastInteg' = IntegEv("noUrl", a, "none")
            /\ UNCHANGED <<scheduled, otherToasts>>
    /\ UNCHANGED <<nAttempts, inFlight, verified, connectedToasts, errorToasts,
                   refetched>>

\* handleConnectApp catch: toast.error('Failed to initiate connection')
connectError(a) ==
    /\ stage[a] = "connecting"
    /\ stage' = [stage EXCEPT ![a] = "ended"]
    /\ otherToasts' = otherToasts + 1
    /\ lastInteg' = IntegEv("connectError", a, "none")
    /\ UNCHANGED <<nAttempts, scheduled, inFlight, verified, connectedToasts,
                   errorToasts, refetched>>

\* the timeout fires: checkConnection up to its await, api.get(verify)
checkConnection(a) ==
    /\ scheduled[a] > 0
    /\ verified < MaxVerifies
    /\ scheduled' = [scheduled EXCEPT ![a] = @ - 1]
    /\ inFlight' = [inFlight EXCEPT ![a] = @ + 1]
    /\ verified' = verified + 1
    /\ lastInteg' = IntegEv("verify", a, "none")
    /\ UNCHANGED <<nAttempts, stage, connectedToasts, errorToasts, otherToasts,
                   refetched>>

verifyResponse_PollsOn(a, st) ==
    /\ inFlight[a] > 0
    /\ inFlight' = [inFlight EXCEPT ![a] = @ - 1]
    /\ lastInteg' = IntegEv("verified", a, st)
    /\ scheduled' = [scheduled EXCEPT ![a] = @ + 1]
    /\ IF st = "connected"
       THEN /\ connectedToasts' = [connectedToasts EXCEPT ![a] = @ + 1]
            /\ refetched' = refetched + 1
            /\ UNCHANGED stage
       ELSE UNCHANGED <<connectedToasts, refetched, stage>>
    /\ UNCHANGED <<nAttempts, verified, errorToasts, otherToasts>>

\* checkConnection after its await: 'connected' toasts and refetches,
\* 'pending' calls setTimeout(checkConnection, 2000), any other status does
\* nothing
verifyResponse(a, st) ==
    /\ inFlight[a] > 0
    /\ inFlight' = [inFlight EXCEPT ![a] = @ - 1]
    /\ lastInteg' = IntegEv("verified", a, st)
    /\ IF st = "connected"
       THEN /\ connectedToasts' = [connectedToasts EXCEPT ![a] = @ + 1]
            /\ refetched' = refetched + 1
            /\ stage' = [stage EXCEPT ![a] = "ended"]
            /\ UNCHANGED scheduled
       ELSE IF st = "pending"
       THEN /\ scheduled' = [scheduled EXCEPT ![a] = @ + 1]
            /\ UNCHANGED <<connectedToasts, refetched, stage>>
       ELSE /\ stage' = [stage EXCEPT ![a] = "ended"]
            /\ UNCHANGED <<connectedToasts, refetched, scheduled>>
    /\ UNCHANGED <<nAttempts, verified, errorToasts, otherToasts>>

\* checkConnection catch: toast.error('Failed to verify connection')
verifyError(a) ==
    /\ inFlight[a] > 0
    /\ inFlight' = [inFlight EXCEPT ![a] = @ - 1]
    /\ errorToasts' = [errorToasts EXCEPT ![a] = @ + 1]
    /\ stage' = [stage EXCEPT ![a] = "ended"]
    /\ lastInteg' = IntegEv("verifyError", a, "none")
    /\ UNCHANGED <<nAttempts, scheduled, verified, connectedToasts,
                   otherToasts, refetched>>

\* ======================================================================
\* Specifications
\* ======================================================================

\* every variable of the module
allVars == <<vars, schemaVars, canvasVars, credVars, integVars>>

\* the variables a specification of one component leaves alone
besidesModal == <<schemaVars, canvasVars, credVars, integVars>>
besidesSchema == <<vars, canvasVars, credVars, integVars>>
besidesCanvas == <<vars, schemaVars, credVars, integVars>>
besidesCred == <<vars, schemaVars, canvasVars, integVars>>
besidesInteg == <<vars, schemaVars, canvasVars, credVars>>

\* the renderer without a schema
SchemaIdle ==
    /\ schema = NullSchema /\ isExpanded = EmptyMap
    /\ touched = FALSE /\ opened = {} /\ lastUi = UiEv("mount", <<>>)

\* the events of the renderer
SchemaNext ==
    \/ \E path \in DOMAIN isExpanded : Toggle(path) /\ UNCHANGED besidesSchema
    \/ Rerender /\ UNCHANGED besidesSchema
    \/ Remount /\ UNCHANGED besidesSchema

\* the renderer alone; the other components stay as constructed
SchemaStart == Init /\ SchemaInit /\ CanvasInit /\ CredInit /\ IntegInit

SchemaSpec == SchemaStart /\ [][SchemaNext]_allVars

\* the actions of the canvas store
CanvasNext ==
    \/ \E v \in NodeLists : setNodes(v) /\ UNCHANGED besidesCanvas
    \/ \E v \in EdgeLists : setEdges(v) /\ UNCHANGED besidesCanvas
    \/ \E v \in NodeIds : setSelectedNode(v) /\ UNCHANGED besidesCanvas
    \/ loadCanvas /\ UNCHANGED besidesCanvas
    \/ \E ok \in BOOLEAN : loadCanvasSettles(ok) /\ UNCHANGED besidesCanvas
    \/ saveCanvas /\ UNCHANGED besidesCanvas
    \/ \E ok \in BOOLEAN : saveCanvasSettles(ok) /\ UNCHANGED besidesCanvas
    \/ executeWorkflow /\ UNCHANGED besidesCanvas
    \/ \E ok \in BOOLEAN : executeWorkflowSettles(ok) /\ UNCHANGED besidesCanvas

\* the canvas store alone
CanvasStart == Init /\ SchemaIdle /\ CanvasInit /\ CredInit /\ IntegInit

CanvasSpec == CanvasStart /\ [][CanvasNext]_allVars

\* the steps of the credential service
CredNext ==
    \/ \E c \in Callers, entry \in Entries :
           initialize(c, entry) /\ UNCHANGED besidesCred
    \/ \E c \in Callers : storeLoaded(c) /\ UNCHANGED besidesCred
    \/ \E c \in Callers : gotVaultKey(c) /\ UNCHANGED besidesCred
    \/ \E c \in Callers : vaultKeySaved(c) /\ UNCHANGED besidesCred
    \/ \E c \in Callers, ok \in BOOLEAN :
           strongholdLoaded(c, ok) /\ UNCHANGED besidesCred
    \/ \E c \in Callers : clientLoaded(c) /\ UNCHANGED besidesCred
    \/ \E c \in Callers : settingsLoaded(c) /\ UNCHANGED besidesCred

\* the credential service alone
CredStart == Init /\ SchemaIdle /\ CanvasInit /\ CredInit /\ IntegInit

CredSpec == CredStart /\ [][CredNext]_allVars

\* the steps of the connect flow of the Integrations page
IntegNext ==
    \/ handleConnectApp /\ UNCHANGED besidesInteg
    \/ \E a \in Attempts, hasUrl \in BOOLEAN :
           connectResponse(a, hasUrl) /\ UNCHANGED besidesInteg
    \/ \E a \in Attempts : connectError(a) /\ UNCHANGED besidesInteg
    \/ \E a \in Attempts : checkConnection(a) /\ UNCHANGED besidesInteg
    \/ \E a \in Attempts, st \in VerifyStatuses :
           verifyResponse(a, st) /\ UNCHANGED besidesInteg
    \/ \E a \in Attempts : verifyError(a) /\ UNCHANGED besidesInteg

\* the Integrations page alone
IntegStart == Init /\ SchemaIdle /\ CanvasInit /\ CredInit /\ IntegInit

IntegSpec == IntegStart /\ [][IntegNext]_allVars

\* the handlers of the modal
Next ==
    \/ OpenModal /\ UNCHANGED besidesModal
    \/ CloseModal /\ UNCHANGED besidesModal
    \/ \E slug \in Slugs : handleConnect(slug) /\ UNCHANGED besidesModal
    \/ \E i \in initiateMutation, w \in 0..MaxInitiates :
           onSuccessInitiate(i, w) /\ UNCHANGED besidesModal
    \/ \E i \in initiateMutation, c \in BOOLEAN :
           onErrorInitiate(i, c) /\ UNCHANGED besidesModal
    \/ \E s \in Sessions : PollTick(s) /\ UNCHANGED besidesModal
    \/ \E s \in Sessions, k \in 1..MaxPolls, st \in Statuses :
           StatusResponse(s, k, st) /\ UNCHANGED besidesModal
    \/ \E s \in Sessions, k \in 1..MaxPolls :
           StatusError(s, k) /\ UNCHANGED besidesModal
    \/ \E s \in Sessions : PopupTick(s) /\ UNCHANGED besidesModal
    \/ \E w \in Windows : UserClosesPopup(w) /\ UNCHANGED besidesModal

\* the modal alone; the other components stay as constructed
ModalStart ==
    /\ Init /\ SchemaIdle /\ CanvasInit /\ CredInit /\ IntegInit

Spec == ModalStart /\ [][Next]_allVars

\* what the scheduling of the browser guarantees: a scheduled interval keeps
\* firing its callback, and a request in flight settles
Fairness ==
    /\ \A s \in Sessions :
           WF_allVars(PopupTick(s) /\ UNCHANGED besidesModal)
    /\ \A s \in Sessions :
           WF_allVars(PollTick(s) /\ UNCHANGED besidesModal)
    /\ \A s \in Sessions :
           WF_allVars(
               /\ \/ \E k \in 1..MaxPolls, st \in Statuses : StatusResponse(s, k, st)
                  \/ \E k \in 1..MaxPolls : StatusError(s, k)
               /\ UNCHANGED besidesModal)
    /\ WF_allVars(
           /\ \/ \E i \in initiateMutation, w \in 0..MaxInitiates :
                     onSuccessInitiate(i, w)
              \/ \E i \in initiateMutation, c \in BOOLEAN : onErrorInitiate(i, c)
           /\ UNCHANGED besidesModal)

\* the modal under the scheduling of the browser
FairSpec == Spec /\ Fairness

\* ---- helpers of the properties ----

Started(s) == s <= nSessions

\* the popup of session s is closed (a session without a popup has none open)
PopupShut(s) == popup[s] # 0 => winState[popup[s]] = "closed"

\* both timers of session s are stopped
TimersStopped(s) == ~pollInterval[s] /\ ~checkPopupClosed[s]

\* the callback that ran last is op, for session s, started during AWAITING_AUTH
Handled(op, s) == last.op = op /\ last.sess = s /\ last.awaiting

\* the pending connection of the modal instance m is cleared
PendingCleared(m) == Mounted(m) => pendingConnection = NoPending

\* ---- properties ----

\* C1: whenever a status response ACTIVE is handled during AWAITING_AUTH, the
\* handling leaves the status-poll timer and the popup-liveness timer stopped
\* and the popup closed.
C1_ActiveStopsBothTimers ==
    \A s \in Sessions :
        Handled("ACTIVE", s) => TimersStopped(s) /\ PopupShut(s)

\* C2: when the popup is closed while the session is AWAITING_AUTH, the
\* liveness timer is still scheduled, its firing never passes over the closed
\* popup, and the firing that detects it cancels the status-poll timer and the
\* liveness timer and clears the pending connection.
C2_PopupCloseCancels ==
    \A s \in Sessions :
        /\ AwaitingAuth(s) => checkPopupClosed[s]
        /\ (last.op = "popupAlive" /\ last.sess = s) => ~PopupClosed(s)
        /\ Handled("popupClosed", s) =>
               /\ TimersStopped(s)
               /\ phase[s] = "CANCELLED"
               /\ PendingCleared(owner[s])

C2_Witness ==
    \E s \in Sessions :
        /\ Handled("popupClosed", s)
        /\ Mounted(owner[s])
        /\ phase[s] = "CANCELLED"
        /\ checks[s] # <<>>

\* C3: per modal instance at most one session has a timer scheduled, and the
\* connect triggers of the mounted modal are disabled whenever an initiate call
\* or a session of that modal is in flight.
C3_OneSessionPerModal ==
    /\ \A m \in 1..MaxModals :
           Cardinality({s \in Sessions :
               owner[s] = m /\ (pollInterval[s] \/ checkPopupClosed[s])}) <= 1
    /\ showAddConnection =>
           ((isLoading \/ \E s \in Sessions : owner[s] = modalId /\ AwaitingAuth(s))
                => ConnectDisabled)

\* C4: in every state after a terminal transition of a session (to ACTIVE,
\* FAILED or CANCELLED) neither of the session's timers is scheduled.
C4_CrossCancellation ==
    \A s \in Sessions :
        phase[s] \in {"ACTIVE", "FAILED", "CANCELLED"} => TimersStopped(s)

\* C5: a session cancelled by the liveness timer never shows an alert, and the
\* detection leaves the modal in IDLE: no pending connection, connect triggers
\* enabled.
C5_SilentCancellation ==
    \A s \in Sessions :
        /\ phase[s] = "CANCELLED" => failAlerts[s] = 0
        /\ (Handled("popupClosed", s) /\ Mounted(owner[s])) => ~ConnectDisabled

\* C6: when a status response FAILED is handled during AWAITING_AUTH, both
\* timers are cancelled, the popup is closed, an alert is shown, the pending
\* connection is cleared and the caller is not notified of success.
C6_FailedStopsBothTimers ==
    \A s \in Sessions :
        Handled("FAILED", s) =>
            /\ TimersStopped(s)
            /\ PopupShut(s)
            /\ failAlerts[s] >= 1
            /\ PendingCleared(owner[s])
            /\ notified[s] = 0

\* C7: a status check that throws during AWAITING_AUTH is only logged: no
\* alert, no notification, and the pending connection, the modal, the popup
\* and both timers are unchanged, so the poll timer fires again.
C7_PollErrorIsTransient ==
    [][\A s \in Sessions :
        (last'.op = "statusError" /\ last'.sess = s /\ last'.awaiting) =>
            /\ logged'[s] = logged[s] + 1
            /\ pollInterval'[s] /\ checkPopupClosed'[s]
            /\ phase'[s] = "AWAITING_AUTH"
            /\ UNCHANGED <<pendingConnection, showAddConnection, winState,
                           pollInterval, checkPopupClosed, failAlerts,
                           initAlerts, notified, refetches>>]_vars

C7_Witness ==
    \E s \in Sessions :
        /\ Handled("statusError", s)
        /\ logged[s] >= 1
        /\ pollInterval[s]
        /\ pendingConnection.connectionId = data[s].connection_id

C9_InitiateErrorSurfaced ==
    [][(last'.op = "initiateError") =>
            /\ initAlerts' = initAlerts + 1
            /\ Cardinality(initiateMutation') = Cardinality(initiateMutation) - 1
            /\ ~(\E i \in initiateMutation' : i.modal = last'.modal)
            /\ (showAddConnection' /\ modalId' = last'.modal) =>
                   (pendingConnection' = NoPending /\ ~ConnectDisabled')
            /\ UNCHANGED <<nSessions, opens, popup, winState, winUrl,
                           pollInterval, checkPopupClosed, checks, failAlerts,
                           pendingConnection, showAddConnection>>]_vars

C9_Witness ==
    /\ last.op = "initiateError"
    /\ Mounted(last.modal)
    /\ initAlerts >= 1
    /\ ~ConnectDisabled

\* C10: once the modal is closed, no status-poll timer and no popup-liveness
\* timer started by it is still scheduled.
C10_TimersScopedToModal ==
    \A s \in Sessions :
        (Started(s) /\ ~Mounted(owner[s])) => TimersStopped(s)

\* C11: a session that handles ACTIVE during AWAITING_AUTH calls the onSuccess
\* prop, which closes the modal and refetches the connection list; a session
\* that ended in FAILED or CANCELLED never calls it.
C11_OnlyActiveNotifies ==
    \A s \in Sessions :
        /\ Handled("ACTIVE", s) =>
               notified[s] >= 1 /\ refetches >= 1 /\ ~showAddConnection
        /\ phase[s] \in {"FAILED", "CANCELLED"} => notified[s] = 0

\* C12: the success notification (and the refetch) happens only in the
\* handling of a status response ACTIVE to a check made with the session's
\* connection_id, and the 'Connection failed' alert only in the handling of
\* such a response FAILED; no other callback produces either.
C12_OutcomeOnlyFromResponse ==
    [][\A s \in Sessions :
        /\ notified'[s] # notified[s] =>
               /\ last'.op = "ACTIVE" /\ last'.sess = s
               /\ notified'[s] = notified[s] + 1
               /\ \E k \in 1..Len(checks[s]) :
                      /\ checks[s][k] = data[s].connection_id
                      /\ checks'[s] = RemoveAt(checks[s], k)
        /\ failAlerts'[s] # failAlerts[s] =>
               /\ last'.op = "FAILED" /\ last'.sess = s
               /\ failAlerts'[s] = failAlerts[s] + 1
               /\ \E k \in 1..Len(checks[s]) :
                      /\ checks[s][k] = data[s].connection_id
                      /\ checks'[s] = RemoveAt(checks[s], k)
        /\ refetches' # refetches => last'.op = "ACTIVE"]_vars

C12_Witness ==
    \E s, r \in Sessions :
        /\ notified[s] = 1 /\ last.op = "ACTIVE" /\ last.sess = s
        /\ failAlerts[r] = 1

\* C20: a status response PENDING or EXPIRED causes no transition: pending
\* connection, modal, popup, both timers, alerts and notifications are all
\* unchanged, whatever the number of such responses.
C20_PendingExpiredNoTransition ==
    [][\A s \in Sessions :
        (last'.op \in {"PENDING", "EXPIRED"} /\ last'.sess = s) =>
            /\ last'.awaiting =>
                   /\ pollInterval'[s] /\ checkPopupClosed'[s]
                   /\ phase'[s] = "AWAITING_AUTH"
            /\ UNCHANGED <<pendingConnection, showAddConnection, winState,
                           winUrl, pollInterval, checkPopupClosed, phase,
                           failAlerts, initAlerts, notified, refetches,
                           logged, nSessions>>]_vars

C20_Witness ==
    \E s \in Sessions :
        /\ Handled("EXPIRED", s)
        /\ polls >= 2
        /\ checks[s] = <<>>
        /\ phase[s] = "AWAITING_AUTH"
        /\ pendingConnection.connectionId = data[s].connection_id
        /\ popup[s] # 0 /\ winState[popup[s]] = "open"

\* ---- properties of the schema renderer (SchemaSpec) ----

\* the event just handled was a click on the header of the item at a
\* mounted path
Clicked == lastUi.op = "click"

\* C13: every PropertyItem rendered at level 0 starts expanded and every
\* PropertyItem rendered at a level > 0 starts collapsed: this holds of all
\* items after a mount of the renderer, and of every item a click mounts.
C13_StartsExpandedIffRoot ==
    /\ [](lastUi.op = "mount" =>
             \A q \in DOMAIN isExpanded : isExpanded[q] = (LevelOf(q) = 0))
    /\ [][\A q \in DOMAIN isExpanded' :
              (q \notin DOMAIN isExpanded \/ lastUi'.op = "mount") =>
                  isExpanded'[q] = (LevelOf(q) = 0)]_schemaVars

\* a click has expanded an item again, which mounted its children collapsed,
\* among them an expandable one, while the items of the root are expanded
C13_Witness ==
    /\ Clicked /\ isExpanded[lastUi.path]
    /\ \E q \in DOMAIN isExpanded :
           /\ Below(lastUi.path, q) /\ LevelOf(q) > 0
           /\ hasNestedProperties(PropAt(q)) /\ ~isExpanded[q]
    /\ \E r \in DOMAIN isExpanded : LevelOf(r) = 0 /\ isExpanded[r]

\* C14: a property is expandable (a click on its header flips isExpanded, and
\* its header shows a chevron) iff its type is "object" and it has properties,
\* or its type is "array" and its items have properties; a click on a
\* property that is not expandable changes no expand state; an array of
\* strings has no chevron.
C14_ExpandableRule ==
    /\ [](\A q \in DOMAIN isExpanded :
             PropAt(q) = [type |-> T("array"), items |-> [type |-> T("string")]]
                 => Chevron(PropAt(q), isExpanded[q]) = "none")
    /\ [][lastUi'.op = "click" =>
            LET q == lastUi'.path
                p == PropAt(q)
                expandable ==
                    \/ Has(p, "type") /\ ~p.type.list /\ p.type.v = <<"object">>
                       /\ Has(p, "properties")
                    \/ /\ Has(p, "type") /\ ~p.type.list /\ p.type.v = <<"array">>
                       /\ Has(p, "items") /\ Has(p.items, "properties")
            IN /\ expandable =>
                      /\ isExpanded'[q] = ~isExpanded[q]
                      /\ Chevron(p, isExpanded[q]) # "none"
               /\ ~expandable =>
                      /\ isExpanded' = isExpanded
                      /\ Chevron(p, isExpanded[q]) = "none"]_schemaVars

\* an array of strings was clicked and nothing changed, next to an
\* expandable item
C14_Witness ==
    /\ Clicked
    /\ PropAt(lastUi.path) = [type |-> T("array"), items |-> [type |-> T("string")]]
    /\ isExpanded[lastUi.path]
    /\ \E q \in DOMAIN isExpanded : hasNestedProperties(PropAt(q))

\* the paths of the PropertyItems of the nested display of the item at q
Children(q) ==
    {Append(q, n) : n \in DOMAIN NestedSchema(PropAt(q)).properties}

\* C15: every expandable property in the expanded state shows a nested
\* renderer for its child schema, with its items one level deeper, and a
\* collapsed or non-expandable property shows none, also when the child
\* properties map is empty.
C15_NestedShownIffExpanded ==
    \A q \in DOMAIN isExpanded :
        LET p == PropAt(q)
        IN IF hasNestedProperties(p) /\ isExpanded[q]
           THEN /\ NestedShown(p, isExpanded[q])
                /\ Children(q) \subseteq DOMAIN isExpanded
           ELSE /\ ~NestedShown(p, isExpanded[q])
                /\ \A r \in DOMAIN isExpanded : ~Below(q, r)

C17_BCollapsedByDefault ==
    schema = ExampleSchema =>
        /\ {<<"a">>, <<"b">>} \subseteq DOMAIN isExpanded
        /\ ~touched =>
               /\ ~isExpanded[<<"b">>]
               /\ <<"b", "c">> \notin DOMAIN isExpanded

\* C17 amended: for the example schema a and b are shown at the root and both
\* start expanded, so that c is shown from the start, collapsed at level 1;
\* c is shown exactly while b is expanded, and every toggle of b flips b:
\* the first hides c, the second reveals it again.
C17_BExpandedByDefault ==
    /\ [](schema = ExampleSchema =>
           /\ {q \in DOMAIN isExpanded : LevelOf(q) = 0} = {<<"a">>, <<"b">>}
           /\ ~touched =>
                  /\ isExpanded[<<"a">>] /\ isExpanded[<<"b">>]
                  /\ <<"b", "c">> \in DOMAIN isExpanded
           /\ <<"b", "c">> \in DOMAIN isExpanded <=> isExpanded[<<"b">>]
           /\ <<"b", "c">> \in DOMAIN isExpanded => ~isExpanded[<<"b", "c">>])
    /\ [][(schema = ExampleSchema /\ lastUi'.op = "click"
              /\ lastUi'.path = <<"b">>) =>
                 isExpanded'[<<"b">>] = ~isExpanded[<<"b">>]]_schemaVars

\* b of the example schema was toggled a second time and c is shown again
C17_Witness ==
    /\ schema = ExampleSchema
    /\ Clicked /\ lastUi.path = <<"b">>
    /\ isExpanded[<<"b">>]
    /\ <<"b", "c">> \in DOMAIN isExpanded /\ ~isExpanded[<<"b", "c">>]

\* the state of the initial render, from the schema alone: the properties of
\* the root expanded, the children of the root's expandable properties with
\* a child map that is not empty collapsed, nothing deeper
InitialRender ==
    IF schema = NullSchema \/ "properties" \notin DOMAIN schema THEN <<>>
    ELSE LET roots == {<<n>> : n \in DOMAIN schema.properties}
             kids == UNION {Children(q) : q \in {r \in roots :
                                hasNestedProperties(PropAt(r))}}
         IN [q \in roots \cup kids |-> q \in roots]

\* C18: as long as the user has not interacted, the expand state after any
\* number of renders of the same schema is the state of the initial render,
\* which is a function of the schema and the level alone (expanded at level 0
\* only), and a render changes no expand state.
C18_RerenderKeepsInitialState ==
    /\ [](~touched => isExpanded = InitialRender)
    /\ [][lastUi'.op = "render" => isExpanded' = isExpanded]_schemaVars

\* the schema was rendered again without interaction, with an expandable
\* property collapsed at level 1
C18_Witness ==
    /\ lastUi.op = "render" /\ ~touched
    /\ \E q \in DOMAIN isExpanded :
           LevelOf(q) = 1 /\ hasNestedProperties(PropAt(q)) /\ ~isExpanded[q]

\* C19: no render and no toggle changes the schema given to the renderer;
\* only the expand flags of the properties change.
C19_SchemaNeverMutated ==
    [][schema' = schema]_schemaVars

\* properties were collapsed and expanded, and the renderer rendered again
C19_Witness ==
    /\ touched /\ lastUi.op = "render"
    /\ \E q, r \in DOMAIN isExpanded :
           /\ LevelOf(q) = 0 /\ ~isExpanded[q]
           /\ LevelOf(r) = 1 /\ isExpanded[r]

\* C21: a property is marked required iff its name is in the required list of
\* the schema it is rendered from: the list of the root schema at level 0; at
\* a nested level the required value of the parent property (of its items,
\* for an array) when that is a list, and the empty list when it is a boolean
\* or absent.
C21_RequiredPerLevel ==
    \A q \in DOMAIN isExpanded :
        LET name == q[Len(q)]
            parent == PropAt(SubSeq(q, 1, Len(q) - 1))
            holder == IF LevelOf(q) = 0 THEN schema
                      ELSE IF parent.type.v = <<"object">> THEN parent
                      ELSE parent.items
            listed == IF "required" \in DOMAIN holder /\ holder.required.list
                      THEN holder.required.v
                      ELSE {}
        IN isRequired(q) <=> name \in listed

\* a required property at the root, a required one two levels down, and a
\* property that is not required below a parent whose required is a boolean
C21_Witness ==
    \E q, r, s \in DOMAIN isExpanded :
        /\ LevelOf(q) = 0 /\ isRequired(q)
        /\ LevelOf(r) = 2 /\ isRequired(r)
        /\ LevelOf(s) = 1 /\ ~isRequired(s)
        /\ Has(PropAt(SubSeq(s, 1, 1)), "required")
        /\ PropAt(SubSeq(s, 1, 1)).required = ReqBool

\* C22: when the schema is null or undefined or has no properties map, the
\* renderer shows the 'No parameters defined' placeholder only: no
\* PropertyItem is mounted, so there is no expand state and no nested display.
C22_PlaceholderOnly ==
    (schema = NullSchema \/ "properties" \notin DOMAIN schema) =>
        /\ RootOutput = "No parameters defined"
        /\ DOMAIN isExpanded = {}

\* a schema without a properties map was rendered, and rendered again
C22_Witness ==
    /\ schema = [type |-> T("object")]
    /\ lastUi.op = "render"
    /\ RootOutput = "No parameters defined"

\* C27: the expand state of descendants does not survive the collapse of an
\* ancestor: a click that collapses a property unmounts everything below it,
\* a click that expands it mounts everything below it collapsed, whatever the
\* state before, and no click changes the state of any property that is not
\* below the clicked one (its siblings and ancestors).
C27_DescendantsReset ==
    [][lastUi'.op = "click" =>
          LET q == lastUi'.path
          IN /\ \A r \in DOMAIN isExpanded :
                    (r # q /\ ~Below(q, r)) =>
                        r \in DOMAIN isExpanded' /\ isExpanded'[r] = isExpanded[r]
             /\ \A r \in DOMAIN isExpanded' :
                    Below(q, r) => isExpanded'[q] /\ ~isExpanded'[r]
             /\ \A r \in DOMAIN isExpanded' :
                    r \in DOMAIN isExpanded \/ Below(q, r)]_schemaVars

\* a property at the root was collapsed and expanded again: a property below
\* it that a click had expanded before is collapsed, and a sibling at the
\* root is still collapsed
C27_Witness ==
    /\ Clicked /\ LevelOf(lastUi.path) = 0 /\ isExpanded[lastUi.path]
    /\ \E r \in opened :
           Below(lastUi.path, r) /\ r \in DOMAIN isExpanded /\ ~isExpanded[r]
    /\ \E s \in DOMAIN isExpanded :
           LevelOf(s) = 0 /\ s # lastUi.path /\ ~isExpanded[s]

\* ---- further properties of the modal (Spec, FairSpec) ----

\* C23: the success notification fires at most once per successful initiate,
\* also when several checks in flight for its connection answer ACTIVE.
C23_NotifiedAtMostOnce ==
    \A s \in Sessions : notified[s] <= 1

\* C24: a status response handled after its session has ended shows no alert,
\* sends no success notification, and neither clears the pending connection
\* nor closes the modal.
C24_LateResponseHasNoEffect ==
    [][(last'.op \in Statuses /\ ~last'.awaiting) =>
          UNCHANGED <<failAlerts, notified, refetches, pendingConnection,
                      showAddConnection>>]_vars

\* C25: a popup-liveness timer still scheduled when its session has reached a
\* terminal outcome is cancelled eventually, also when window.open returned
\* null.
C25_PopupTimerCancelled ==
    \A s \in Sessions :
        (phase[s] \in {"ACTIVE", "FAILED", "CANCELLED"} /\ checkPopupClosed[s])
            ~> ~checkPopupClosed[s]

\* C26: the close button and the search box of the modal are disabled as long
\* as a session started from it is in AWAITING_AUTH, so that the session is
\* left by a terminal transition only.
C26_LockedWhileAwaiting ==
    \A s \in Sessions :
        (phase[s] = "AWAITING_AUTH" /\ Mounted(owner[s])) =>
            CloseDisabled /\ SearchDisabled

\* ---- properties of the canvas store (CanvasSpec) ----

\* C28: isExecuting is true exactly while at least one executeWorkflow call
\* is in flight, also when calls overlap and when a call fails and throws;
\* executeWorkflow, loadCanvas and saveCanvas change neither nodes nor edges
\* nor selectedNode.
C28_ExecutingWhileInFlight ==
    /\ [](isExecuting <=> executing > 0)
    /\ [][lastCanvas'.op \in {"executeWorkflow", "executeWorkflowSettles",
                               "loadCanvas", "loadCanvasSettles",
                               "saveCanvas", "saveCanvasSettles"}
             => UNCHANGED canvasData]_canvasVars

\* ---- properties of the credential service (CredSpec) ----

\* C29: the setup runs at most once per instance: no second call enters the
\* setup while one is running, no second vault key is created, and once
\* initialize has succeeded no call writes anything the setup writes.
C29_SetupAtMostOnce ==
    /\ [](Cardinality(InSetup) <= 1)
    /\ [](keysCreated <= 1)
    /\ [][initialized => UNCHANGED credSetup]_credVars

\* ---- properties of the Integrations page (IntegSpec) ----

\* C30: a connect attempt has at most one verification poll outstanding, a
\* timeout scheduled or a request in flight; a poll is scheduled only by the
\* connect response with an auth_url and by a 'pending' verify response; once
\* an attempt has ended ('connected', another status, or a failed verify
\* request with its error toast) nothing of it is scheduled or in flight any
\* more; the success toast and the refetch happen only in the handling of a
\* 'connected' response.
C30_PollOnlyWhilePending ==
    /\ [](\A a \in Attempts :
             /\ scheduled[a] + inFlight[a] <= 1
             /\ stage[a] \in {"idle", "connecting", "ended"} =>
                    scheduled[a] = 0 /\ inFlight[a] = 0)
    /\ [][\A a \in Attempts :
              /\ scheduled'[a] > scheduled[a] =>
                     /\ lastInteg'.attempt = a
                     /\ \/ lastInteg'.op = "opened"
                        \/ lastInteg'.op = "verified" /\ lastInteg'.status = "pending"
              /\ (lastInteg'.op = "verified" /\ lastInteg'.attempt = a
                     /\ lastInteg'.status # "pending") =>
                     stage'[a] = "ended" /\ scheduled'[a] = 0
              /\ (lastInteg'.op = "verifyError" /\ lastInteg'.attempt = a) =>
                     /\ stage'[a] = "ended" /\ scheduled'[a] = 0
                     /\ errorToasts'[a] = errorToasts[a] + 1
              /\ (connectedToasts'[a] # connectedToasts[a]
                     \/ (refetched' # refetched /\ lastInteg'.attempt = a)) =>
                     /\ lastInteg'.op = "verified" /\ lastInteg'.attempt = a
                     /\ lastInteg'.status = "connected"
                     /\ connectedToasts'[a] = connectedToasts[a] + 1
                     /\ refetched' = refetched + 1]_integVars

\* an attempt has ended with 'connected' after a 'pending' answer, its one
\* toast shown, and another attempt has ended with a failed verify request
C30_Witness ==
    \E a, b \in Attempts :
        /\ lastInteg = IntegEv("verified", a, "connected")
        /\ verified = 3
        /\ stage[a] = "ended" /\ connectedToasts[a] = 1 /\ refetched = 1
        /\ stage[b] = "ended" /\ errorToasts[b] = 1

====
